---- MODULE Spec2Model ----
(***************************************************************************)
(* SlipStreamNodeDriver (src/src/slipstream/libcloud/compute_driver.py):   *)
(* the blocking wait loop ex_wait_node_in_state, the key pair operations   *)
(* over the account's newline-joined public key list, and create_node /    *)
(* destroy_node / delete_image.  The driver is single threaded: one public *)
(* operation runs at a time, so each group of operations has its own       *)
(* specification (SpecWait, SpecKeys, SpecNode) over the shared variables. *)
(***************************************************************************)
EXTENDS Integers, Sequences, FiniteSets, TLC

VARIABLES
    \* ---- ex_wait_node_in_state: arguments, locals, clock, upstream ----
    pc,             \* position in ex_wait_node_in_state
    now,            \* time.time(), relative to the entry of the call
    states,         \* argument `states`: a str or a list
    wait_period,    \* argument `wait_period`
    timeout,        \* argument `timeout`
    ignore_abort,   \* argument `ignore_abort`
    _states,        \* local `_states`
    deadline,       \* local `deadline`
    state,          \* local `state`: value of the latest poll
    ss_state,       \* upstream: the deployment's 'ss:state' parameter
    aborted,        \* upstream: the deployment carries an abort/failure
    polls,          \* number of get_deployment_parameter calls issued
    sleeps,         \* number of time.sleep calls issued
    observed,       \* the values the polls returned, in order
    result,         \* value returned by the call ("" while none)
    error,          \* exception the call raised ("none" while none)
    \* ---- key pairs ----
    have_pycrypto,  \* module flag set at import
    ssh_public_keys,\* upstream: get_user().ssh_public_keys, a list of lines
    kp_call,        \* the latest key pair operation and its arguments
    kp_out,         \* what that operation raised / pushed / returned
    \* ---- create_node / destroy_node / delete_image ----
    nd_call,        \* the latest node operation and its arguments
    nd_out,         \* what that operation called upstream / raised / returned
    \* ---- helpers without upstream state, called on their own ----
    fn_call,        \* the latest helper call and its arguments
    fn_out          \* what it returned

waitVars == <<pc, now, states, wait_period, timeout, ignore_abort, _states,
              deadline, state, ss_state, aborted, polls, sleeps, observed,
              result, error>>
keyVars  == <<have_pycrypto, ssh_public_keys, kp_call, kp_out>>
nodeVars == <<nd_call, nd_out>>
fnVars   == <<fn_call, fn_out>>
vars     == <<waitVars, keyVars, nodeVars, fnVars>>

\* ------------------------------------------------------------------------
\* Bounds of the model
\* ------------------------------------------------------------------------
MaxTimeout == 3      \* largest `timeout` argument tried
MaxWait    == 2      \* largest `wait_period` argument tried
MaxPolls   == 3      \* polls recorded per call
MaxKeys    == 2      \* key lines the account holds before registration stops
MaxPairs   == 2      \* key pairs serialized together in one blob

\* The clock saturates: the loop only compares `now < deadline`, and
\* deadline <= MaxTimeout, so every time >= MaxTimeout behaves alike.
MaxTime == MaxTimeout + MaxWait

Min(a, b) == IF a < b THEN a ELSE b

\* ========================================================================
\* ex_wait_node_in_state
\* ========================================================================
SsStates == {"Executing", "Ready", "Done"}

\* `states` is a str or a list; the unused side is left empty.
StrArg(s)  == [isStr |-> TRUE,  str |-> s,  list |-> {}]
ListArg(l) == [isStr |-> FALSE, str |-> "", list |-> l]
StatesArgs == {StrArg("Ready"), StrArg("Done")}
                \cup {ListArg(l) : l \in {{}, {"Ready"}, {"Ready", "Done"}}}

\* _states = [states] if isinstance(states, basestring) else states
NormalizeStates_NoWrap(s) == s.list
NormalizeStates(s) == IF s.isStr THEN {s.str} ELSE s.list

\* The third positional argument the driver hands to
\* ss_api.get_deployment_parameter(node.id, 'ss:state', ignore_abort).
AbortFlagPassed_Always(ia) == TRUE
AbortFlagPassed(ia) == ia

\* ss_api.get_deployment_parameter: raises when the deployment has failed
\* unless it is told to ignore the abort; otherwise returns the value.
get_deployment_parameter(value, isAborted, ignoreFlag) ==
    IF isAborted /\ ~ignoreFlag
    THEN [raised |-> TRUE,  value |-> ""]
    ELSE [raised |-> FALSE, value |-> value]

\* `state in _states`
InStates(v, accepted) == v \in accepted

InitWaitVars ==
    /\ pc = "entry"
    /\ now = 0
    /\ states \in StatesArgs
    /\ wait_period \in 0..MaxWait
    /\ timeout \in 0..MaxTimeout
    /\ ignore_abort \in BOOLEAN
    /\ _states = {}
    /\ deadline = 0
    /\ state = ""
    /\ ss_state \in SsStates
    /\ aborted \in BOOLEAN
    /\ polls = 0
    /\ sleeps = 0
    /\ observed = <<>>
    /\ result = ""
    /\ error = "none"

\* lines 618-619
Entry ==
    /\ pc = "entry"
    /\ _states' = NormalizeStates(states)
    /\ deadline' = now + timeout
    /\ pc' = "while"
    /\ UNCHANGED <<now, states, wait_period, timeout, ignore_abort, state,
                   ss_state, aborted, polls, sleeps, observed, result, error>>
    /\ UNCHANGED <<keyVars, nodeVars, fnVars>>

\* line 621: the loop condition `time.time() < deadline`
LoopCondition_AtDeadline(t, d) == t <= d
LoopCondition(t, d) == t < d

\* line 621 true: the loop body is entered
WhileEnter ==
    /\ pc = "while"
    /\ LoopCondition(now, deadline)
    /\ pc' = "poll"
    /\ UNCHANGED <<now, states, wait_period, timeout, ignore_abort, _states,
                   deadline, state, ss_state, aborted, polls, sleeps,
                   observed, result, error>>
    /\ UNCHANGED <<keyVars, nodeVars, fnVars>>

\* line 621 false, then lines 629-630: raise LibcloudError('Timed out ...')
WhileExit ==
    /\ pc = "while"
    /\ ~LoopCondition(now, deadline)
    /\ pc' = "done"
    /\ error' = "LibcloudError"
    /\ UNCHANGED <<now, states, wait_period, timeout, ignore_abort, _states,
                   deadline, state, ss_state, aborted, polls, sleeps,
                   observed, result>>
    /\ UNCHANGED <<keyVars, nodeVars, fnVars>>

\* lines 622-625: one poll, and the return when the value is accepted.  An
\* exception of the upstream call is not caught and leaves the function.
Poll ==
    /\ pc = "poll"
    /\ polls < MaxPolls
    /\ polls' = polls + 1
    /\ LET r == get_deployment_parameter(ss_state, aborted,
                                         AbortFlagPassed(ignore_abort))
       IN  IF r.raised
           THEN /\ pc' = "done"
                /\ error' = "AbortException"
                /\ UNCHANGED <<state, observed, result>>
           ELSE /\ state' = r.value
                /\ observed' = Append(observed, r.value)
                /\ IF InStates(r.value, _states)
                   THEN pc' = "done" /\ result' = r.value
                   ELSE pc' = "sleep" /\ UNCHANGED result
                /\ UNCHANGED error
    /\ UNCHANGED <<now, states, wait_period, timeout, ignore_abort, _states,
                   deadline, ss_state, aborted, sleeps>>
    /\ UNCHANGED <<keyVars, nodeVars, fnVars>>

\* line 627: time.sleep(wait_period)
Sleep ==
    /\ pc = "sleep"
    /\ now' = Min(now + wait_period, MaxTime)
    /\ sleeps' = sleeps + 1
    /\ pc' = "while"
    /\ UNCHANGED <<states, wait_period, timeout, ignore_abort, _states,
                   deadline, state, ss_state, aborted, polls, observed,
                   result, error>>
    /\ UNCHANGED <<keyVars, nodeVars, fnVars>>

\* Time passes while the call runs (the upstream round trip, scheduling).
Tick ==
    /\ pc \in {"while", "poll", "sleep"}
    /\ now < MaxTime
    /\ now' = now + 1
    /\ UNCHANGED <<pc, states, wait_period, timeout, ignore_abort, _states,
                   deadline, state, ss_state, aborted, polls, sleeps,
                   observed, result, error>>
    /\ UNCHANGED <<keyVars, nodeVars, fnVars>>

\* The deployment moves on upstream while the driver waits.
UpstreamChange ==
    /\ pc \in {"while", "poll", "sleep"}
    /\ \E s \in SsStates \ {ss_state} : ss_state' = s
    /\ UNCHANGED <<pc, now, states, wait_period, timeout, ignore_abort,
                   _states, deadline, state, aborted, polls, sleeps,
                   observed, result, error>>
    /\ UNCHANGED <<keyVars, nodeVars, fnVars>>

UpstreamAbort ==
    /\ pc \in {"while", "poll", "sleep"}
    /\ ~aborted
    /\ aborted' = TRUE
    /\ UNCHANGED <<pc, now, states, wait_period, timeout, ignore_abort,
                   _states, deadline, state, ss_state, polls, sleeps,
                   observed, result, error>>
    /\ UNCHANGED <<keyVars, nodeVars, fnVars>>

\* ========================================================================
\* Key pairs.  Text is a sequence of one-character strings, so that
\* strip / split / format / join act on it as they do in Python.
\* ========================================================================
SP == " "
NL == "\n"
Whitespace == {"\t", "\r", "\n", " "}

\* str.strip('\t\r\n ')
RECURSIVE LStrip(_)
LStrip(s) == IF s # <<>> /\ Head(s) \in Whitespace THEN LStrip(Tail(s)) ELSE s
RECURSIVE RStrip(_)
RStrip(s) == IF s # <<>> /\ s[Len(s)] \in Whitespace
             THEN RStrip(SubSeq(s, 1, Len(s) - 1)) ELSE s
Strip_LeftOnly(s) == LStrip(s)
Strip(s) == RStrip(LStrip(s))

\* index of the first occurrence of character c in s, 0 when there is none
RECURSIVE IndexFrom(_, _, _)
IndexFrom(s, c, i) == IF i > Len(s) THEN 0
                      ELSE IF s[i] = c THEN i ELSE IndexFrom(s, c, i + 1)
IndexOf(s, c) == IndexFrom(s, c, 1)

\* str.split(sep, maxsplit) for a one-character sep; maxsplit < 0: no limit
RECURSIVE Split(_, _, _)
Split(s, sep, maxsplit) ==
    LET i == IndexOf(s, sep)
    IN  IF maxsplit = 0 \/ i = 0 THEN <<s>>
        ELSE <<SubSeq(s, 1, i - 1)>>
             \o Split(SubSeq(s, i + 1, Len(s)), sep, maxsplit - 1)

\* sep.join(list)
RECURSIVE Join(_, _)
Join(list, sep) ==
    IF list = <<>> THEN <<>>
    ELSE IF Len(list) = 1 THEN list[1]
    ELSE list[1] \o <<sep>> \o Join(Tail(list), sep)

\* lines 750-759.  key[1] on a one-field line is the IndexError that
\* becomes ValueError.
_parse_ssh_public_key(ssh_public_key) ==
    LET key == Split(Strip(ssh_public_key), SP, 2)
    IN  IF Len(key) < 2
        THEN [ok |-> FALSE, key_type |-> <<>>, key_content |-> <<>>,
              key_name |-> <<>>]
        ELSE [ok |-> TRUE, key_type |-> key[1], key_content |-> key[2],
              key_name |-> IF Len(key) > 2 THEN key[3] ELSE <<>>]

\* lines 737-748; name = <<>> stands for both None and ''.  ok = FALSE is
\* the ValueError of the parse.
_ssh_public_key_to_key_pair(ssh_public_key, name) ==
    LET p == _parse_ssh_public_key(ssh_public_key)
        public_key_name == IF name # <<>> THEN name ELSE p.key_name
    IN  [ok |-> p.ok,
         name |-> public_key_name,
         public_key |-> p.key_type \o <<SP>> \o p.key_content \o <<SP>>
                        \o public_key_name,
         public_key_type |-> p.key_type,
         public_key_content |-> p.key_content]

\* Upstream user resource: update_user(ssh_public_keys=blob) stores the
\* blob and get_user().ssh_public_keys hands it back cut at the newlines.
StoredLines(blob) == Split(blob, NL, -1)

SelectNonEmpty(lines) == SelectSeq(lines, LAMBDA kp : kp # <<>>)

\* lines 491-499: the list of key pairs, or a ValueError (ok = FALSE) when a
\* line does not parse.
list_key_pairs(lines) ==
    LET kept == SelectNonEmpty(lines)
        kps  == [i \in 1..Len(kept) |-> _ssh_public_key_to_key_pair(kept[i], <<>>)]
    IN  [ok |-> \A i \in 1..Len(kept) : kps[i].ok, key_pairs |-> kps]

\* lines 733-735: dict([(kp.name, kp) ...  if kp and kp.name]); a later
\* entry replaces an earlier one of the same name.
_list_key_pairs_by_names(kps) ==
    LET idx == {i \in 1..Len(kps) : kps[i].name # <<>>}
        names == {kps[i].name : i \in idx}
    IN  [n \in names |->
            kps[CHOOSE i \in idx : /\ kps[i].name = n
                                   /\ \A j \in idx : kps[j].name = n => j <= i]]

\* ---- inputs of the key pair operations ----
T_RSA == <<"r">>            \* key type, as 'ssh-rsa'
T_DSS == <<"d">>            \* key type, as 'ssh-dss'
Line2(t, c)    == t \o <<SP>> \o c
Line3(t, c, n) == t \o <<SP>> \o c \o <<SP>> \o n

\* `name` arguments; <<>> is the empty / missing name
KeyNames == {<<>>, <<"x">>, <<"y">>}

\* key material handed to the imports: without comment, with a comment and
\* the trailing newline of a key file, and a one-field line
KeyMaterials == {Line2(T_RSA, <<"A">>),
                 Line3(T_DSS, <<"B">>, <<"y">>) \o <<NL>>,
                 T_RSA}

\* base64 bodies RSA.generate(2048) ... exportKey(format='OpenSSH') yields
GeneratedContents == {<<"G">>}

\* lines the account holds before the driver is used
InitLines == {Line3(T_RSA, <<"A">>, <<"x">>),
              Line3(T_DSS, <<"B">>, <<"y">>),
              Line2(T_RSA, <<"C">>)}

IsInjective(f) == \A i, j \in DOMAIN f : f[i] = f[j] => i = j
Orderings(S) == {f \in [1..Cardinality(S) -> S] : IsInjective(f)}

NoKeyPair == [name |-> <<>>, public_key |-> <<>>,
              public_key_type |-> <<>>, public_key_content |-> <<>>]
AsKeyPair(kp) == [name |-> kp.name, public_key |-> kp.public_key,
                  public_key_type |-> kp.public_key_type,
                  public_key_content |-> kp.public_key_content]

KpCall(op, name, material) == [op |-> op, name |-> name, key_material |-> material]
KpOut(raised, updated, pushed, kp) ==
    [raised |-> raised, updated |-> updated, pushed |-> pushed, key_pair |-> kp]

InitKeyVars ==
    /\ have_pycrypto \in BOOLEAN
    /\ \E l \in Orderings(InitLines) : \E n \in 0..Min(2, MaxKeys) :
          ssh_public_keys = StoredLines(Join(SubSeq(l, 1, n), NL))
    /\ kp_call = KpCall("none", <<>>, <<>>)
    /\ kp_out = KpOut("none", FALSE, <<>>, NoKeyPair)

IdleKeyVars ==
    /\ have_pycrypto = TRUE
    /\ ssh_public_keys = StoredLines(<<>>)
    /\ kp_call = KpCall("none", <<>>, <<>>)
    /\ kp_out = KpOut("none", FALSE, <<>>, NoKeyPair)

\* lines 761-767: read the list, append, join, push the whole blob
AddedBlob_OnlyNew(user_public_keys, ssh_public_key) == ssh_public_key
AddedBlob(user_public_keys, ssh_public_key) ==
    Join(Append(user_public_keys, ssh_public_key), NL)

_add_ssh_public_key(ssh_public_key) ==
    ssh_public_keys' = StoredLines(AddedBlob(ssh_public_keys, ssh_public_key))

RoomForKey == Len(SelectNonEmpty(ssh_public_keys)) < MaxKeys

\* lines 501-511: _list_key_pairs_by_names().get(name), None when missing;
\* raised is the ValueError of a line that does not parse
get_key_pair(lines, name) ==
    LET listed == list_key_pairs(lines)
        key_pairs == _list_key_pairs_by_names(listed.key_pairs)
    IN  IF ~listed.ok
        THEN [raised |-> TRUE, found |-> FALSE, key_pair |-> NoKeyPair]
        ELSE IF name \in DOMAIN key_pairs
        THEN [raised |-> FALSE, found |-> TRUE, key_pair |-> AsKeyPair(key_pairs[name])]
        ELSE [raised |-> FALSE, found |-> FALSE, key_pair |-> NoKeyPair]

\* lines 513-534
create_key_pair ==
    \E name \in KeyNames, content \in GeneratedContents :
        /\ kp_call' = KpCall("create_key_pair", name, <<>>)
        /\ IF ~have_pycrypto
           THEN /\ kp_out' = KpOut("RuntimeError", FALSE, <<>>, NoKeyPair)
                /\ UNCHANGED ssh_public_keys
           ELSE LET public_key_openssh == Line2(T_RSA, content)
                    key_pair == _ssh_public_key_to_key_pair(public_key_openssh, name)
                IN  /\ RoomForKey
                    /\ _add_ssh_public_key(key_pair.public_key)
                    /\ kp_out' = KpOut("none", TRUE,
                                       AddedBlob(ssh_public_keys, key_pair.public_key),
                                       AsKeyPair(key_pair))
        /\ UNCHANGED have_pycrypto
        /\ UNCHANGED <<waitVars, nodeVars, fnVars>>

\* lines 536-553, called with (name, key_material); op names the entry point
ImportFromString(op, name, key_material) ==
    LET key_pair == _ssh_public_key_to_key_pair(key_material, name)
    IN  /\ kp_call' = KpCall(op, name, key_material)
        /\ IF ~key_pair.ok
           THEN /\ kp_out' = KpOut("ValueError", FALSE, <<>>, NoKeyPair)
                /\ UNCHANGED ssh_public_keys
           ELSE /\ RoomForKey
                /\ _add_ssh_public_key(key_pair.public_key)
                /\ kp_out' = KpOut("none", TRUE,
                                   AddedBlob(ssh_public_keys, key_pair.public_key),
                                   AsKeyPair(key_pair))
        /\ UNCHANGED have_pycrypto
        /\ UNCHANGED <<waitVars, nodeVars, fnVars>>

import_key_pair_from_string ==
    \E name \in KeyNames, key_material \in KeyMaterials :
        ImportFromString("import_key_pair_from_string", name, key_material)

\* lines 555-570: open() may fail; otherwise the file's text is imported
import_key_pair_from_file ==
    \E name \in KeyNames :
        \/ /\ kp_call' = KpCall("import_key_pair_from_file", name, <<>>)
           /\ kp_out' = KpOut("IOError", FALSE, <<>>, NoKeyPair)
           /\ UNCHANGED <<have_pycrypto, ssh_public_keys>>
           /\ UNCHANGED <<waitVars, nodeVars, fnVars>>
        \/ \E ssh_public_key \in KeyMaterials :
              ImportFromString("import_key_pair_from_file", name, ssh_public_key)

\* line 582: the blob of the remaining key pairs, in the order values() gives
RemainingBlobs(key_pairs, name) ==
    LET rest == DOMAIN key_pairs \ {name}
    IN  {Join([i \in 1..Cardinality(rest) |-> key_pairs[o[i]].public_key], NL)
            : o \in Orderings(rest)}

\* line 580: `del key_pairs[key_pair.name]` raises KeyError for a missing key
DelRaises_Pop(key_pairs, name) == FALSE
DelRaises(key_pairs, name) == name \notin DOMAIN key_pairs

\* lines 572-584
delete_key_pair ==
    \E name \in KeyNames :
        LET listed == list_key_pairs(ssh_public_keys)
            key_pairs == _list_key_pairs_by_names(listed.key_pairs)
        IN  /\ kp_call' = KpCall("delete_key_pair", name, <<>>)
            /\ IF ~listed.ok
               THEN /\ kp_out' = KpOut("ValueError", FALSE, <<>>, NoKeyPair)
                    /\ UNCHANGED ssh_public_keys
               ELSE IF DelRaises(key_pairs, name)
               THEN /\ kp_out' = KpOut("KeyError", FALSE, <<>>, NoKeyPair)
                    /\ UNCHANGED ssh_public_keys
               ELSE \E blob \in RemainingBlobs(key_pairs, name) :
                       /\ ssh_public_keys' = StoredLines(blob)
                       /\ kp_out' = KpOut("none", TRUE, blob, NoKeyPair)
            /\ UNCHANGED have_pycrypto
            /\ UNCHANGED <<waitVars, nodeVars, fnVars>>

\* ========================================================================
\* create_node / destroy_node / delete_image
\* ========================================================================
\* Parameter dicts are functions whose domain is the set of keys present.
\* ex_parameters is one Python dict: `nested` holds its keys that are node
\* names (each mapped to a dict), `flat` holds its other keys.
ParamNames == {"service-offer", "other"}
ParamValues == {"mine"}
FlatMaps == UNION {[D -> ParamValues] : D \in SUBSET ParamNames}
SubNodeNames == {"n1", "n2"}
NestedMaps == UNION {[D -> FlatMaps] : D \in SUBSET SubNodeNames}
ParamArgs == [flat : FlatMaps, nested : NestedMaps]

\* get_application_nodes(path): the application's subnodes, by name
AppNodeLists == {<<>>, <<"n1">>, <<"n1", "n2">>}

\* ex_tags: a str or a list ([] when not given)
TagStr(t)   == [isStr |-> TRUE,  str |-> t,  list |-> <<>>]
TagList(l)  == [isStr |-> FALSE, str |-> "", list |-> l]
TagArgs == {TagStr("t"), TagList(<<>>), TagList(<<"t">>), TagList(<<"t", "u">>)}

Put(m, k, v) == [x \in DOMAIN m \cup {k} |-> IF x = k THEN v ELSE m[x]]
EmptyMap == [x \in {} |-> "mine"]

\* if 'service-offer' not in d: d['service-offer'] = size.id
SetServiceOffer_Overwrite(d, size_id) == Put(d, "service-offer", size_id)
SetServiceOffer(d, size_id) ==
    IF "service-offer" \in DOMAIN d THEN d ELSE Put(d, "service-offer", size_id)

\* line 392: the key of parameters.setdefault(...) inside
\* `for app_node in ...` is element_node.name, the variable the loop of
\* lines 384-385 left behind
LoopKey(app_node, element_node) == element_node

\* lines 391-394, the loop body run for each app_node in turn
RECURSIVE InjectNodes(_, _, _, _)
InjectNodes(nested, app_nodes, element_node, size_id) ==
    IF app_nodes = <<>> THEN nested
    ELSE LET key == LoopKey(Head(app_nodes), element_node)
             node_params == IF key \in DOMAIN nested THEN nested[key] ELSE EmptyMap
         IN  InjectNodes(Put(nested, key, SetServiceOffer(node_params, size_id)),
                         Tail(app_nodes), element_node, size_id)

\* lines 399-401
NormalizeTags_NoWrap(tags, name) ==
    IF name # "" THEN <<name>> \o tags.list ELSE tags.list
NormalizeTags(tags, name) ==
    LET l == IF tags.isStr THEN <<tags.str>> ELSE tags.list
    IN  IF name # "" THEN <<name>> \o l ELSE l

NoCloud == [kind |-> "none", str |-> "", dict |-> EmptyMap]
NoDeploy == [called |-> FALSE, path |-> "", cloud |-> NoCloud,
             parameters |-> [flat |-> EmptyMap, nested |-> EmptyMap],
             tags |-> <<>>]
NdOut(calls, raised, ret, warned, deploy) ==
    [calls |-> calls, raised |-> raised, ret |-> ret, warned |-> warned,
     deploy |-> deploy]

\* one call of the upstream client, with its first argument
Call(fn, arg) == [fn |-> fn, arg |-> arg]

\* The deployment upstream holds under an id: its id field is an id object,
\* which str() turns into the id's text.
Uuid(text) == [uuid |-> text]
Str(v) == v.uuid
Deployment(node_id) == [id |-> Uuid(node_id)]

\* lines 680-690; of the Node's fields, id and name
_deployment_to_node(deployment) ==
    [id |-> Str(deployment.id), name |-> Str(deployment.id)]

\* lines 586-596; answer: what get_deployment does for this id
ex_get_node_Stale(node_id, answer) ==
    IF answer = "raise"
    THEN [calls |-> <<Call("get_deployment", "dep-1")>>, raised |-> "HTTPError",
          ret |-> ""]
    ELSE [calls |-> <<Call("get_deployment", "dep-1")>>, raised |-> "none",
          ret |-> _deployment_to_node(Deployment("dep-1")).id]
ex_get_node(node_id, answer) ==
    IF answer = "raise"
    THEN [calls |-> <<Call("get_deployment", node_id)>>, raised |-> "HTTPError",
          ret |-> ""]
    ELSE [calls |-> <<Call("get_deployment", node_id)>>, raised |-> "none",
          ret |-> _deployment_to_node(Deployment(node_id)).id]

\* lines 364-412.  a: the keyword arguments ("" stands for None);
\* up: what upstream answers (element type or an exception, the subnodes,
\* the deployment id or an exception, the get_deployment outcome).
\* ret is the id of the Node returned.
create_node(a, up) ==
    LET path == a.image
        isApp == up.element = "application"
        build == ~a.ex_cloud /\ a.location # ""
        \* lines 381-387
        cloud == IF a.ex_cloud THEN [kind |-> "caller", str |-> "", dict |-> EmptyMap]
                 ELSE IF a.location = "" THEN NoCloud
                 ELSE IF isApp
                      THEN [kind |-> "dict", str |-> "",
                            dict |-> [n \in {up.nodes[i] : i \in 1..Len(up.nodes)}
                                        |-> a.location]]
                      ELSE [kind |-> "str", str |-> a.location, dict |-> EmptyMap]
        calls1 == <<Call("get_element", path)>>
                  \o (IF build /\ isApp
                      THEN <<Call("get_application_nodes", path)>> ELSE <<>>)
        element_node == IF build /\ isApp /\ up.nodes # <<>>
                        THEN up.nodes[Len(up.nodes)] ELSE "unbound"
        \* lines 389-397
        calls2 == calls1 \o (IF a.size # "" /\ isApp
                             THEN <<Call("get_application_nodes", path)>>
                             ELSE <<>>)
        unbound == a.size # "" /\ isApp /\ up.nodes # <<>> /\ element_node = "unbound"
        parameters ==
            IF a.size = "" \/ unbound THEN a.ex_parameters
            ELSE IF isApp
                 THEN [a.ex_parameters EXCEPT
                         !.nested = InjectNodes(@, up.nodes, element_node, a.size)]
                 ELSE [a.ex_parameters EXCEPT !.flat = SetServiceOffer(@, a.size)]
        deploy == [called |-> TRUE, path |-> path, cloud |-> cloud,
                   parameters |-> parameters,
                   tags |-> NormalizeTags(a.ex_tags, a.name)]
        calls3 == calls2 \o <<Call("deploy", path)>>
        \* line 412
        got == ex_get_node(up.deploy, up.get_deployment)
    IN  \* line 378: None has no attribute id
        IF a.image = ""
        THEN NdOut(<<>>, "AttributeError", "", FALSE, NoDeploy)
        ELSE IF up.element = "raise"
        THEN NdOut(<<Call("get_element", path)>>, "HTTPError", "", FALSE, NoDeploy)
        ELSE IF unbound
        THEN NdOut(calls2, "UnboundLocalError", "", FALSE, NoDeploy)
        ELSE IF up.deploy = "raise"
        THEN NdOut(calls3, "HTTPError", "", FALSE, deploy)
        ELSE NdOut(calls3 \o got.calls, got.raised, got.ret, FALSE, deploy)

CreateArgs == [image : {"", "img/app"},
               name : {"", "web"}, size : {"", "offer-S"},
               location : {"", "cloudA"}, ex_cloud : BOOLEAN,
               ex_parameters : ParamArgs, ex_tags : TagArgs]
CreateUpstream == [element : {"application", "component", "raise"},
                   nodes : AppNodeLists,
                   deploy : {"dep-1", "dep-2", "raise"},
                   get_deployment : {"ok", "raise"}]

NdCall(op, a, up) == [op |-> op, args |-> a, up |-> up]
NoArgs == [image |-> "", name |-> "", size |-> "", location |-> "", ex_cloud |-> FALSE,
           ex_parameters |-> [flat |-> EmptyMap, nested |-> EmptyMap],
           ex_tags |-> TagList(<<>>)]
NoUpstream == [element |-> "", nodes |-> <<>>, deploy |-> "", get_deployment |-> "",
               outcome |-> ""]

InitNodeVars ==
    /\ nd_call = NdCall("none", NoArgs, NoUpstream)
    /\ nd_out = NdOut(<<>>, "none", "", FALSE, NoDeploy)

CreateNode ==
    /\ nd_call.op = "none"
    /\ \E a \in CreateArgs, u \in CreateUpstream :
          \* the subnodes are asked of applications only
          /\ (u.element # "application" => u.nodes = <<>>)
          /\ LET up == [element |-> u.element, nodes |-> u.nodes,
                        deploy |-> u.deploy, get_deployment |-> u.get_deployment,
                        outcome |-> ""]
             IN  /\ nd_call' = NdCall("create_node", a, up)
                 /\ nd_out' = create_node(a, up)
    /\ UNCHANGED <<waitVars, keyVars, fnVars>>

\* ---- destroy_node / delete_image ----
\* what the upstream call does: returns True, or raises an Exception
UpstreamExceptions == {"HTTPError", "ConnectionError", "KeyError"}
UpstreamOutcomes == {"True"} \cup UpstreamExceptions

\* names the module binds (imports, lines 105-124) and the builtins used
ModuleNames == {"time", "warnings", "traceback", "RuntimeWarning"}
\* names bound inside each method when its except clause runs
LocalNames(method) ==
    IF method = "destroy_node" THEN {"self", "node", "e"}
    ELSE IF method = "delete_image" THEN {"self", "node_image", "e"}
    ELSE {}
\* names the warning expression of the except clause reads
\* (lines 427-430 and 473-476)
HandlerReads(method) == {"warnings", "node", "traceback", "RuntimeWarning"}

\* `except Exception as e:` body: warn, unless evaluating the message
\* raises NameError
HandlerRaises(method) ==
    ~(HandlerReads(method) \subseteq (LocalNames(method) \cup ModuleNames))

\* lines 424-431
destroy_node_Propagate(outcome) ==
    IF outcome = "True" THEN NdOut(<<Call("terminate", "node-1")>>, "none", "True", FALSE, NoDeploy)
    ELSE NdOut(<<Call("terminate", "node-1")>>, outcome, "", FALSE, NoDeploy)
destroy_node(outcome) ==
    IF outcome = "True" THEN NdOut(<<Call("terminate", "node-1")>>, "none", "True", FALSE, NoDeploy)
    ELSE IF HandlerRaises("destroy_node")
    THEN NdOut(<<Call("terminate", "node-1")>>, "NameError", "", FALSE, NoDeploy)
    ELSE NdOut(<<Call("terminate", "node-1")>>, "none", "False", TRUE, NoDeploy)

\* lines 470-477
delete_image(outcome) ==
    IF outcome = "True" THEN NdOut(<<Call("delete_element", "img/app")>>, "none", "True", FALSE, NoDeploy)
    ELSE IF HandlerRaises("delete_image")
    THEN NdOut(<<Call("delete_element", "img/app")>>, "NameError", "", FALSE, NoDeploy)
    ELSE NdOut(<<Call("delete_element", "img/app")>>, "none", "False", TRUE, NoDeploy)

DestroyNode ==
    /\ nd_call.op = "none"
    /\ \E outcome \in UpstreamOutcomes :
          /\ nd_call' = NdCall("destroy_node", NoArgs,
                               [NoUpstream EXCEPT !.outcome = outcome])
          /\ nd_out' = destroy_node(outcome)
    /\ UNCHANGED <<waitVars, keyVars, fnVars>>

DeleteImage ==
    /\ nd_call.op = "none"
    /\ \E outcome \in UpstreamOutcomes :
          /\ nd_call' = NdCall("delete_image", NoArgs,
                               [NoUpstream EXCEPT !.outcome = outcome])
          /\ nd_out' = delete_image(outcome)
    /\ UNCHANGED <<waitVars, keyVars, fnVars>>

\* ========================================================================
\* Specifications
\* ========================================================================
IdleFnVars ==
    /\ fn_call = [op |-> "none"]
    /\ fn_out = [op |-> "none"]

InitWait == InitWaitVars /\ IdleKeyVars /\ InitNodeVars /\ IdleFnVars
NextWait == \/ Entry \/ WhileEnter \/ WhileExit \/ Poll \/ Sleep
            \/ Tick \/ UpstreamChange \/ UpstreamAbort
SpecWait == InitWait /\ [][NextWait]_vars

IdleWaitVars ==
    /\ pc = "idle" /\ now = 0 /\ states = StrArg("Ready") /\ wait_period = 0
    /\ timeout = 0 /\ ignore_abort = FALSE /\ _states = {} /\ deadline = 0
    /\ state = "" /\ ss_state = "Executing" /\ aborted = FALSE /\ polls = 0
    /\ sleeps = 0 /\ observed = <<>> /\ result = "" /\ error = "none"

InitKeys == IdleWaitVars /\ InitKeyVars /\ InitNodeVars /\ IdleFnVars
NextKeys == \/ create_key_pair \/ import_key_pair_from_string
            \/ import_key_pair_from_file \/ delete_key_pair
SpecKeys == InitKeys /\ [][NextKeys]_vars

InitNode == IdleWaitVars /\ IdleKeyVars /\ InitNodeVars /\ IdleFnVars
NextNode == CreateNode \/ DestroyNode \/ DeleteImage
SpecNode == InitNode /\ [][NextNode]_vars

\* ------------------------------------------------------------------------
\* The key pair blob on its own: key pairs as the driver builds them
\* (lines 529 and 549), their public_key lines joined as at lines 582 and
\* 765, and the blob read back as list_key_pairs reads it (lines 498-499).
\* ------------------------------------------------------------------------
\* key material: no comment; comment and the newline of a key file; empty
\* content; a comment holding a space; leading blanks; a generated key
BlobMaterials == {Line2(T_RSA, <<"A">>),
                  Line3(T_DSS, <<"B">>, <<"y">>) \o <<NL>>,
                  Line3(T_RSA, <<>>, <<"y">>),
                  Line3(T_DSS, <<"B">>, <<"x", SP, "y">>),
                  <<SP>> \o Line2(T_RSA, <<"A">>),
                  Line2(T_RSA, <<"G">>)}
\* `name` arguments: none, a word, two words
BlobNames == {<<>>, <<"x">>, <<"x", SP, "z">>}

BlobInputs == [key_material : BlobMaterials, name : BlobNames]
BlobInputSeqs == UNION {[1..n -> BlobInputs] : n \in 0..MaxPairs}

BuildKeyPairs(inputs) ==
    [i \in 1..Len(inputs) |->
        _ssh_public_key_to_key_pair(inputs[i].key_material, inputs[i].name)]

SerializeAndList ==
    /\ fn_call.op = "none"
    /\ \E inputs \in BlobInputSeqs :
          LET key_pairs == BuildKeyPairs(inputs)
              blob == Join([i \in 1..Len(key_pairs) |-> key_pairs[i].public_key], NL)
          IN  /\ fn_call' = [op |-> "serialize", key_pairs |-> key_pairs, blob |-> blob]
              /\ fn_out' = [op |-> "list_key_pairs",
                            listed |-> list_key_pairs(StoredLines(blob))]
    /\ UNCHANGED <<waitVars, keyVars, nodeVars>>

InitBlob == IdleWaitVars /\ IdleKeyVars /\ InitNodeVars /\ IdleFnVars
NextBlob == SerializeAndList
SpecBlob == InitBlob /\ [][NextBlob]_vars

\* ------------------------------------------------------------------------
\* The status table and _state_to_node_state.  A status string is its
\* letters in lower case together with the positions written in upper case,
\* so that str.lower() is the clearing of those positions.
\* ------------------------------------------------------------------------
Text(base, caps) == [base |-> base, caps |-> caps]
Lower(t) == [t EXCEPT !.caps = {}]

Entry_(key, value) == [key |-> key, value |-> value]

\* lines 155-179
NODE_STATE_MAP ==
    { Entry_(Text("initializing", {}),    "PENDING"),
      Entry_(Text("provisioning", {}),    "REBOOTING"),
      Entry_(Text("executing", {}),       "RUNNING"),
      Entry_(Text("sendingreports", {8}), "RUNNING"),    \* 'sendingReports'
      Entry_(Text("ready", {}),           "RUNNING"),
      Entry_(Text("finalizing", {}),      "RUNNING"),
      Entry_(Text("done", {}),            "TERMINATED"),
      Entry_(Text("aborted", {}),         "ERROR"),
      Entry_(Text("cancelled", {}),       "TERMINATED"),
      Entry_(Text("rebooting", {}),       "REBOOTING"),
      Entry_(Text("poweroff", {}),        "STOPPED"),
      Entry_(Text("running", {}),         "RUNNING"),
      Entry_(Text("stopped", {}),         "STOPPED"),
      Entry_(Text("deleted", {}),         "TERMINATED"),
      Entry_(Text("terminated", {}),      "TERMINATED"),
      Entry_(Text("error", {}),           "ERROR"),
      Entry_(Text("stopping", {}),        "RUNNING"),
      Entry_(Text("failed", {}),          "ERROR"),
      Entry_(Text("pending", {}),         "PENDING"),
      Entry_(Text("paused", {}),          "PAUSED"),
      Entry_(Text("suspended", {}),       "PAUSED") }

\* dict.get(key, default) and dict[key]
HasKey(d, key) == \E e \in d : e.key = key
Lookup(d, key) == (CHOOSE e \in d : e.key = key).value

\* lines 660-662; raised stands for an exception leaving the method
_state_to_node_state_NoDefault(state_arg) ==
    IF HasKey(NODE_STATE_MAP, Lower(state_arg))
    THEN [raised |-> FALSE, node_state |-> Lookup(NODE_STATE_MAP, Lower(state_arg))]
    ELSE [raised |-> TRUE, node_state |-> ""]
_state_to_node_state(state_arg) ==
    [raised |-> FALSE,
     node_state |-> IF HasKey(NODE_STATE_MAP, Lower(state_arg))
                    THEN Lookup(NODE_STATE_MAP, Lower(state_arg))
                    ELSE "UNKNOWN"]

\* status strings tried: the letters of every key of the table and of two
\* strings the table does not have, in several casings
StatusWords == {e.key.base : e \in NODE_STATE_MAP} \cup {"unknown", "detached"}
LongWords == {"initializing", "provisioning", "executing", "sendingreports",
              "finalizing", "cancelled", "rebooting", "poweroff", "terminated",
              "stopping", "suspended", "detached"}
StatusInputs ==
    {Text(w, c) : w \in StatusWords, c \in SUBSET {1, 2}}
    \cup {Text(w, c) : w \in LongWords, c \in {{8}, {1, 8}}}

\* One call of _state_to_node_state; the call before it is kept beside it.
StateToNodeState ==
    \E status \in StatusInputs :
        /\ fn_call' = [op |-> "_state_to_node_state", state |-> status,
                       previous |-> IF fn_call.op = "_state_to_node_state"
                                    THEN <<[state |-> fn_call.state,
                                            returned |-> fn_out.returned]>>
                                    ELSE <<>>]
        /\ fn_out' = [op |-> "_state_to_node_state",
                      returned |-> _state_to_node_state(status)]
        /\ UNCHANGED <<waitVars, keyVars, nodeVars>>

InitStatus == IdleWaitVars /\ IdleKeyVars /\ InitNodeVars /\ IdleFnVars
NextStatus == StateToNodeState
SpecStatus == InitStatus /\ [][NextStatus]_vars

\* ========================================================================
\* Properties
\* ========================================================================
\* The set of accepted values the caller means by `states`.
Accepted == IF states.isStr THEN {states.str} ELSE states.list

\* C1: ex_wait_node_in_state returns at the first poll whose observed value
\* is a member of `states` (a single string counts as a one-element set) and
\* returns that value: an accepted value is always the last one observed,
\* the call has then returned it after exactly that many polls, and a call
\* that returned did so with an accepted value.
C1_ReturnsAtFirstAccepted ==
    /\ \A i \in 1..Len(observed) :
          observed[i] \in Accepted =>
             /\ i = Len(observed)
             /\ polls = i
             /\ pc = "done"
             /\ error = "none"
             /\ result = observed[i]
    /\ (pc = "done" /\ error = "none") =>
          /\ observed # <<>>
          /\ result = observed[Len(observed)]
          /\ result \in Accepted

\* The scripted upstream [A, A, B] with states = 'B' given as a bare string.
C1_Witness ==
    /\ pc = "done"
    /\ states = StrArg("Done")
    /\ observed = <<"Executing", "Executing", "Done">>
    /\ polls = 3
    /\ result = "Done"

\* C2: the deadline is entry time + timeout, computed once; the timeout
\* error is raised only when the clock has reached the deadline; a loop test
\* made at or after the deadline ends the call with the timeout error; and a
\* call that ended without observing an accepted value and without an
\* upstream exception ended with the timeout error.
C2_TimeoutAtDeadline ==
    [][ /\ (pc # "entry" => deadline = timeout /\ deadline' = deadline)
        /\ (error' = "LibcloudError" => now' >= deadline')
        /\ (pc = "while" /\ pc' # "while" /\ now >= deadline
              => pc' = "done" /\ error' = "LibcloudError")
        /\ (pc' = "done" /\ error' # "AbortException"
              /\ (\A i \in 1..Len(observed') : observed'[i] \notin Accepted)
              => error' = "LibcloudError")
      ]_vars

\* A timeout after polls that never saw the target.
C2_Witness ==
    /\ pc = "done"
    /\ error = "LibcloudError"
    /\ timeout = MaxTimeout
    /\ polls >= 2
    /\ now >= deadline

\* C3: with ignore_abort false, a poll that finds the deployment aborted
\* ends the call at that poll with an error other than the timeout error, no
\* value observed and no sleep; with ignore_abort true the same poll raises
\* nothing and the wait goes on unless the value read is accepted.
C3_AbortEndsWait ==
    [][ /\ (pc = "poll" /\ pc' # "poll" /\ aborted /\ ~ignore_abort
              => /\ pc' = "done"
                 /\ error' = "AbortException"
                 /\ error' # "LibcloudError"
                 /\ observed' = observed
                 /\ sleeps' = sleeps)
        /\ (pc = "poll" /\ pc' # "poll" /\ aborted /\ ignore_abort
              => /\ error' = "none"
                 /\ observed' = Append(observed, ss_state)
                 /\ (ss_state \notin Accepted => pc' = "sleep"))
        /\ (pc = "done" => polls' = polls /\ sleeps' = sleeps)
      ]_vars

\* The abort arrives while the call is waiting and ends it at the next poll.
C3_Witness ==
    /\ pc = "done"
    /\ error = "AbortException"
    /\ ~ignore_abort
    /\ polls = 2
    /\ Len(observed) = 1

\* C4: destroy_node never raises: when terminate raises it warns and
\* returns False, when terminate succeeds it returns True.
C4_DestroyNeverRaises ==
    nd_call.op = "destroy_node" =>
        /\ nd_out.raised = "none"
        /\ (nd_call.up.outcome \in UpstreamExceptions
              => nd_out.warned /\ nd_out.ret = "False")
        /\ (nd_call.up.outcome = "True"
              => ~nd_out.warned /\ nd_out.ret = "True")

C4_Witness ==
    /\ nd_call.op = "destroy_node"
    /\ nd_call.up.outcome = "HTTPError"
    /\ nd_out.ret = "False"
    /\ nd_out.warned

\* C5: delete_image never raises: when delete_element raises it warns and
\* returns False.
C5_DeleteImageNeverRaises ==
    nd_call.op = "delete_image" =>
        /\ nd_out.raised = "none"
        /\ (nd_call.up.outcome \in UpstreamExceptions
              => nd_out.warned /\ nd_out.ret = "False")

\* C6: create_node with `size` and an application image: in the parameters
\* handed to deploy every subnode of the application has 'service-offer',
\* equal to size.id unless the caller's map of that subnode already had one.
C6_ServiceOfferInEverySubnode ==
    (/\ nd_call.op = "create_node"
     /\ nd_call.args.size # ""
     /\ nd_call.up.element = "application"
     /\ nd_out.deploy.called)
    => \A i \in 1..Len(nd_call.up.nodes) :
          LET n == nd_call.up.nodes[i]
              given == nd_call.args.ex_parameters.nested
              passed == nd_out.deploy.parameters.nested
          IN  /\ n \in DOMAIN passed
              /\ "service-offer" \in DOMAIN passed[n]
              /\ passed[n]["service-offer"] =
                    IF n \in DOMAIN given /\ "service-offer" \in DOMAIN given[n]
                    THEN given[n]["service-offer"]
                    ELSE nd_call.args.size

\* C7: create_node with `size` and an image that is a component: deploy is
\* reached when the element lookup succeeds, and the flat parameter map it gets has
\* 'service-offer' equal to size.id when the caller gave none and to the
\* caller's value otherwise; every other parameter is as the caller gave it.
C7_ComponentServiceOffer ==
    (/\ nd_call.op = "create_node"
     /\ nd_call.args.image # ""
     /\ nd_call.args.size # ""
     /\ nd_call.up.element = "component")
    => LET given == nd_call.args.ex_parameters
           passed == nd_out.deploy.parameters
       IN  /\ nd_out.deploy.called
           /\ passed.nested = given.nested
           /\ DOMAIN passed.flat = DOMAIN given.flat \cup {"service-offer"}
           /\ passed.flat["service-offer"] =
                 IF "service-offer" \in DOMAIN given.flat
                 THEN given.flat["service-offer"] ELSE nd_call.args.size
           /\ \A k \in DOMAIN given.flat : passed.flat[k] = given.flat[k]

\* A component deployed with a size while the caller set its own offer.
C7_Witness ==
    /\ nd_call.op = "create_node"
    /\ nd_call.args.size = "offer-S"
    /\ nd_call.up.element = "component"
    /\ DOMAIN nd_call.args.ex_parameters.flat = {"service-offer", "other"}
    /\ nd_out.deploy.called
    /\ nd_out.deploy.parameters.flat["service-offer"] = "mine"

\* The entries of the account's key list: the (type, content, name) of every
\* non-empty line.
Entries(lines) ==
    LET kept == SelectNonEmpty(lines)
    IN  [i \in 1..Len(kept) |->
            LET p == _parse_ssh_public_key(kept[i])
            IN  <<p.key_type, p.key_content, p.key_name>>]
EntrySet(lines) == {Entries(lines)[i] : i \in 1..Len(Entries(lines))}
EntryNames(lines) == {e[3] : e \in EntrySet(lines)}

\* C8: delete_key_pair on a name absent from the current key list fails
\* with an error and issues no update-user call; the key list is unchanged.
C8_DeleteAbsentFailsClosed ==
    [][ (kp_call'.op = "delete_key_pair"
           /\ kp_call'.name \notin EntryNames(ssh_public_keys))
        => /\ kp_out'.raised # "none"
           /\ ~kp_out'.updated
           /\ ssh_public_keys' = ssh_public_keys
      ]_vars

\* A delete by an unknown name against a list that holds other keys.
C8_Witness ==
    /\ kp_call.op = "delete_key_pair"
    /\ kp_call.name = <<"y">>
    /\ kp_out.raised = "KeyError"
    /\ ~kp_out.updated
    /\ EntryNames(ssh_public_keys) = {<<"x">>}

\* C9: delete_key_pair on a (non-empty) name present in the key list pushes
\* a list that holds every previously stored entry except those of that
\* name, nameless entries included, with the same type and content, and
\* nothing else.
C9_DeleteKeepsOtherEntries ==
    [][ (kp_call'.op = "delete_key_pair"
           /\ kp_call'.name # <<>>
           /\ kp_call'.name \in EntryNames(ssh_public_keys))
        => /\ kp_out'.updated
           /\ EntrySet(ssh_public_keys') =
                 {e \in EntrySet(ssh_public_keys) : e[3] # kp_call'.name}
      ]_vars

\* C10: no two entries of the key list carry the same (non-empty) name.
C10_NamesUnique ==
    LET es == Entries(ssh_public_keys)
    IN  \A i, j \in 1..Len(es) :
           (i # j /\ es[i][3] # <<>>) => es[i][3] # es[j][3]

Registrations == {"create_key_pair", "import_key_pair_from_string",
                  "import_key_pair_from_file"}

C13_TagNormalization ==
    (nd_call.op = "create_node" /\ nd_out.deploy.called)
    => LET given == nd_call.args.ex_tags
           asList == IF given.isStr THEN <<given.str>> ELSE given.list
           name == nd_call.args.name
           tags == nd_out.deploy.tags
       IN  /\ (name # "" => /\ Len(tags) = Len(asList) + 1
                            /\ tags[1] = name
                            /\ \A i \in 1..Len(asList) : tags[i + 1] = asList[i])
           /\ (name = "" => tags = asList)

\* A bare string tag with a name: deploy gets [name, t].
C13_Witness ==
    /\ nd_call.op = "create_node"
    /\ nd_call.args.ex_tags = TagStr("t")
    /\ nd_call.args.name = "web"
    /\ nd_out.deploy.called
    /\ nd_out.deploy.tags = <<"web", "t">>

NamedNodeStates == {"PENDING", "REBOOTING", "RUNNING", "STOPPED", "TERMINATED",
                    "ERROR", "PAUSED"}

C14_WitnessUnknown ==
    /\ fn_call.op = "_state_to_node_state"
    /\ fn_call.state = Text("detached", {1})
    /\ fn_out.returned.node_state = "UNKNOWN"

\* C16: every key of the status table is reachable through the mapping: a
\* status string with the letters of a key, in any letter case, gives the
\* state the table lists for that key, never the unknown fallback.
C16_EveryKeyReachable ==
    fn_call.op = "_state_to_node_state" =>
        \A e \in NODE_STATE_MAP :
            e.key.base = fn_call.state.base
               => /\ ~fn_out.returned.raised
                  /\ fn_out.returned.node_state = e.value

\* positions of the calls of one upstream function in a call sequence
CallsOf(calls, fn) == {i \in 1..Len(calls) : calls[i].fn = fn}

\* C15: create_node calls upstream in a fixed order: the element lookup by
\* image id is the first call, at most one deploy follows it, and after a
\* deploy that returned an id the one get-deployment call asks for that id
\* and is the last call; the node returned has that id, as a string, for
\* its id; when a step before deploy fails (no image, the element lookup
\* raises, a local name is unbound) there is no deploy call.
C15_CreateNodeCallOrder ==
    nd_call.op = "create_node" =>
        LET a == nd_call.args
            up == nd_call.up
            calls == nd_out.calls
            deploys == CallsOf(calls, "deploy")
            gets == CallsOf(calls, "get_deployment")
            failsBefore == \/ a.image = ""
                           \/ up.element = "raise"
                           \/ nd_out.raised \in {"AttributeError", "UnboundLocalError"}
        IN  /\ (calls # <<>> => calls[1] = Call("get_element", a.image))
            /\ CallsOf(calls, "get_element") \subseteq {1}
            /\ Cardinality(deploys) <= 1
            /\ Cardinality(gets) <= 1
            /\ \A i \in deploys : i > 1 /\ calls[i].arg = a.image
            /\ \A j \in gets : /\ j = Len(calls)
                               /\ deploys = {j - 1}
                               /\ calls[j].arg = up.deploy
            /\ (failsBefore => deploys = {} /\ gets = {} /\ ~nd_out.deploy.called)
            /\ (~failsBefore => Cardinality(deploys) = 1)
            /\ (~failsBefore /\ up.deploy # "raise" => Cardinality(gets) = 1)
            /\ (nd_out.raised = "none"
                  => /\ Cardinality(deploys) = 1 /\ Cardinality(gets) = 1
                     /\ nd_out.ret = up.deploy)

\* An application deployed with a size and a location: element lookup, two
\* subnode listings, deploy returning dep-2, get-deployment for dep-2.
C15_Witness ==
    /\ nd_call.op = "create_node"
    /\ nd_call.up.element = "application"
    /\ nd_call.up.deploy = "dep-2"
    /\ nd_out.raised = "none"
    /\ nd_out.ret = "dep-2"
    /\ Len(nd_out.calls) = 5
    /\ nd_out.calls[4] = Call("deploy", "img/app")
    /\ nd_out.calls[5] = Call("get_deployment", "dep-2")

\* The element lookup fails: it is the only call.
C15_WitnessNoDeploy ==
    /\ nd_call.op = "create_node"
    /\ nd_call.up.element = "raise"
    /\ nd_out.calls = <<Call("get_element", "img/app")>>
    /\ ~nd_out.deploy.called

====
